---- MODULE Spec2Model ----
(***************************************************************************)
(* Model of src/src/user.rs (steamworks-rs, the ISteamUser binding).       *)
(*                                                                         *)
(* The binding is a thin layer over the platform: every operation makes    *)
(* one call across the FFI boundary and translates the flat result.  The   *)
(* model therefore has two kinds of definitions:                           *)
(*   - the binding's own code (the match translations, the truncation of   *)
(*     the ticket buffer, the callback decoders), translated from user.rs; *)
(*   - the platform behind the boundary (trust authority, voice recorder), *)
(*     which is not part of the repository's source and is modelled from   *)
(*     the design document and the doc comments of user.rs.  These are the *)
(*     definitions whose names start with SteamAPI_ or Platform.           *)
(***************************************************************************)
EXTENDS Integers, Sequences, FiniteSets, TLC

VARIABLES
    sessions,      \* platform: identities with a session begun and not ended
    revoked,       \* authority: sessions it has closed by a failure report
    liveTickets,   \* authority: ticket handles issued and not cancelled
    nextHandle,    \* authority: last ticket handle handed out
    queue,         \* callback channel: raw payloads not yet delivered (FIFO)
    voiceInit,     \* platform: the voice interface is initialised
    phase,         \* platform recorder: "Idle" | "Recording" | "Stopping"
    avail,         \* platform recorder: compressed bytes buffered
    grace,         \* platform recorder: trailing capture left after a stop
    last,          \* the binding's latest call: operation, inputs, outcome
    prev           \* the call before it (decoder specification only)

vars == <<sessions, revoked, liveTickets, nextHandle, queue, voiceInit, phase, avail,
          grace, last, prev>>
authVars == <<sessions, revoked, liveTickets, nextHandle, queue>>
voiceVars == <<voiceInit, phase, avail, grace>>

(***************************************************************************)
(* Bounds of the model.                                                    *)
(***************************************************************************)
MaxTickets == 2     \* ticket handles handed out in one behaviour
MaxPending == 1     \* payloads waiting on the callback channel
MaxAvail == 2       \* compressed bytes the recorder buffers
MaxGrace == 2       \* ticks of trailing capture after stop_recording
MaxDest == 2        \* length of the caller's destination buffer
MaxComp == 2        \* length of the compressed input of decompress

(***************************************************************************)
(* Program constants.                                                      *)
(***************************************************************************)
TicketBufLen == 1024    \* vec![0; 1024]
TicketMaxLen == 1024    \* cbMaxTicket handed to GetAuthSessionTicket

\* unreachable!(): the call panics instead of returning.
Unreachable == "unreachable!"

\* The unit value () of the fire-and-forget operations.
Unit == "()"

\* Platform identities used by the model (SteamId is a u64 copied as is).
Ids == {42, 43}

Min(a, b) == IF a < b THEN a ELSE b

(***************************************************************************)
(* Result codes of the platform, by their names in the sys crate.  The sys *)
(* enums are Rust enums filled in by the platform across the FFI boundary: *)
(* a raw value the enum does not declare is an invalid enum value, and a   *)
(* match on it is undefined behaviour.                                     *)
(***************************************************************************)
BeginAuthCodes ==
    { "k_EBeginAuthSessionResultOK",
      "k_EBeginAuthSessionResultInvalidTicket",
      "k_EBeginAuthSessionResultDuplicateRequest",
      "k_EBeginAuthSessionResultInvalidVersion",
      "k_EBeginAuthSessionResultGameMismatch",
      "k_EBeginAuthSessionResultExpiredTicket" }

AuthResponseCodes ==
    { "k_EAuthSessionResponseOK",
      "k_EAuthSessionResponseUserNotConnectedToSteam",
      "k_EAuthSessionResponseNoLicenseOrExpired",
      "k_EAuthSessionResponseVACBanned",
      "k_EAuthSessionResponseLoggedInElseWhere",
      "k_EAuthSessionResponseVACCheckTimedOut",
      "k_EAuthSessionResponseAuthTicketCanceled",
      "k_EAuthSessionResponseAuthTicketInvalidAlreadyUsed",
      "k_EAuthSessionResponseAuthTicketInvalid",
      "k_EAuthSessionResponsePublisherIssuedBan" }

VoiceCodes ==
    { "k_EVoiceResultOK",
      "k_EVoiceResultNotInitialized",
      "k_EVoiceResultNotRecording",
      "k_EVoiceResultNoData",
      "k_EVoiceResultBufferTooSmall",
      "k_EVoiceResultDataCorrupted",
      "k_EVoiceResultRestricted" }

\* A raw begin-auth result outside the six values of the enum (raw 6 and up),
\* and a raw auth-session response outside its ten values (raw 10 and up):
\* invalid enum values.
OtherBeginAuthCode == "k_EBeginAuthSessionResult_other"
OtherAuthResponseCode == "k_EAuthSessionResponse_other"

\* A voice result the enum declares and the matches do not name (it reaches
\* the `_` arm), and a raw voice result outside the enum (an invalid value).
OtherVoiceCode == "k_EVoiceResultUnsupportedCodec"
InvalidVoiceCode == "k_EVoiceResult_other"

\* The voice results the enum declares, and every voice result.
DeclaredVoiceCodes == VoiceCodes \cup {OtherVoiceCode}
AllVoiceCodes == DeclaredVoiceCodes \cup {InvalidVoiceCode}

EResultCodes ==
    { "k_EResultOK", "k_EResultFail", "k_EResultNoConnection",
      "k_EResultTimeout" }

(***************************************************************************)
(* What a build does with a match on an invalid enum value.  It is         *)
(* undefined behaviour: the call returns one of the typed outcomes as if   *)
(* nothing had happened, returns a value that is no variant at all, runs   *)
(* into a panic, or the process is killed by a signal.  Every operation    *)
(* below that matches on a platform result takes the outcome of that case  *)
(* as its last argument ub, chosen anew for every call.                    *)
(***************************************************************************)

\* The process is killed by a signal (SIGSEGV, SIGILL, abort).
Crash == "SIGSEGV"

\* A returned value that is no variant of the result type.
Garbage == "invalid value"

\* The call did not return: it panicked or the process was killed.
Aborts(out) == out \in {Unreachable, Crash}

BeginAuthOutcomes ==
    { "Ok", "InvalidTicket", "DuplicateRequest", "InvalidVersion",
      "GameMismatch", "ExpiredTicket" }

AuthResponseOutcomes ==
    { "Ok", "UserNotConnectedToSteam", "NoLicenseOrExpired", "VACBanned",
      "LoggedInElseWhere", "VACCheckTimedOut", "AuthTicketCancelled",
      "AuthTicketInvalidAlreadyUsed", "AuthTicketInvalid",
      "PublisherIssuedBan" }

VoiceOutcomes ==
    { "Ok", "NotInitialized", "NotRecording", "NoData", "BufferTooSmall",
      "DataCorrupted", "Restricted" }

BeginAuthUB == BeginAuthOutcomes \cup {Garbage, Unreachable, Crash}
AuthResponseUB == AuthResponseOutcomes \cup {Garbage, Unreachable, Crash}
VoiceUB == VoiceOutcomes \cup {Garbage, Unreachable, Crash}

\* The choices there are for ub when the platform result is res: the whole of
\* `outcomes` when res is an invalid enum value, and nothing to choose when
\* the enum declares res (ub is then not looked at).
UndefinedChoices(res, declared, outcomes) ==
    IF res \in declared THEN {Unreachable} ELSE outcomes

(***************************************************************************)
(* The binding's translations (the match expressions of user.rs).          *)
(***************************************************************************)

\* begin_authentication_session: Err(match res { ... }).  The enum has the
\* six values named, so no valid value reaches the `_` arm.
BeginAuthSessionMatch(res, ub) ==
    CASE res = "k_EBeginAuthSessionResultOK" -> "Ok"
      [] res = "k_EBeginAuthSessionResultInvalidTicket" -> "InvalidTicket"
      [] res = "k_EBeginAuthSessionResultDuplicateRequest" -> "DuplicateRequest"
      [] res = "k_EBeginAuthSessionResultInvalidVersion" -> "InvalidVersion"
      [] res = "k_EBeginAuthSessionResultGameMismatch" -> "GameMismatch"
      [] res = "k_EBeginAuthSessionResultExpiredTicket" -> "ExpiredTicket"
      [] OTHER -> ub

\* ValidateAuthTicketResponse::from_raw: match val.m_eAuthSessionResponse.
\* The enum has the ten values named.
AuthSessionResponseMatch(res, ub) ==
    CASE res = "k_EAuthSessionResponseOK" -> "Ok"
      [] res = "k_EAuthSessionResponseUserNotConnectedToSteam" ->
            "UserNotConnectedToSteam"
      [] res = "k_EAuthSessionResponseNoLicenseOrExpired" -> "NoLicenseOrExpired"
      [] res = "k_EAuthSessionResponseVACBanned" -> "VACBanned"
      [] res = "k_EAuthSessionResponseLoggedInElseWhere" -> "LoggedInElseWhere"
      [] res = "k_EAuthSessionResponseVACCheckTimedOut" -> "VACCheckTimedOut"
      [] res = "k_EAuthSessionResponseAuthTicketCanceled" -> "AuthTicketCancelled"
      [] res = "k_EAuthSessionResponseAuthTicketInvalidAlreadyUsed" ->
            "AuthTicketInvalidAlreadyUsed"
      [] res = "k_EAuthSessionResponseAuthTicketInvalid" -> "AuthTicketInvalid"
      [] res = "k_EAuthSessionResponsePublisherIssuedBan" -> "PublisherIssuedBan"
      [] OTHER -> ub

\* The match of get_available_voice with the Restricted arm returning the
\* error of the NotInitialized arm.
GetAvailableVoiceMatchMerged(res, ub) ==
    CASE res = "k_EVoiceResultOK" -> "Ok"
      [] res = "k_EVoiceResultNotInitialized" -> "NotInitialized"
      [] res = "k_EVoiceResultNotRecording" -> "NotRecording"
      [] res = "k_EVoiceResultNoData" -> "NoData"
      [] res = "k_EVoiceResultBufferTooSmall" -> "BufferTooSmall"
      [] res = "k_EVoiceResultDataCorrupted" -> "DataCorrupted"
      [] res = "k_EVoiceResultRestricted" -> "NotInitialized"
      [] res = OtherVoiceCode -> Unreachable
      [] OTHER -> ub

\* The match of get_available_voice; `_ => unreachable!()` for the values the
\* enum declares beyond the seven named.
GetAvailableVoiceMatch(res, ub) ==
    CASE res = "k_EVoiceResultOK" -> "Ok"
      [] res = "k_EVoiceResultNotInitialized" -> "NotInitialized"
      [] res = "k_EVoiceResultNotRecording" -> "NotRecording"
      [] res = "k_EVoiceResultNoData" -> "NoData"
      [] res = "k_EVoiceResultBufferTooSmall" -> "BufferTooSmall"
      [] res = "k_EVoiceResultDataCorrupted" -> "DataCorrupted"
      [] res = "k_EVoiceResultRestricted" -> "Restricted"
      [] res = OtherVoiceCode -> Unreachable
      [] OTHER -> ub

\* The match of get_voice, with Ok and BufferTooSmall exchanged.
GetVoiceMatchSwapped(res, ub) ==
    CASE res = "k_EVoiceResultOK" -> "BufferTooSmall"
      [] res = "k_EVoiceResultNotInitialized" -> "NotInitialized"
      [] res = "k_EVoiceResultNotRecording" -> "NotRecording"
      [] res = "k_EVoiceResultNoData" -> "NoData"
      [] res = "k_EVoiceResultBufferTooSmall" -> "Ok"
      [] res = "k_EVoiceResultDataCorrupted" -> "DataCorrupted"
      [] res = "k_EVoiceResultRestricted" -> "Restricted"
      [] res = OtherVoiceCode -> Unreachable
      [] OTHER -> ub

\* The match of get_voice.
GetVoiceMatch(res, ub) ==
    CASE res = "k_EVoiceResultOK" -> "Ok"
      [] res = "k_EVoiceResultNotInitialized" -> "NotInitialized"
      [] res = "k_EVoiceResultNotRecording" -> "NotRecording"
      [] res = "k_EVoiceResultNoData" -> "NoData"
      [] res = "k_EVoiceResultBufferTooSmall" -> "BufferTooSmall"
      [] res = "k_EVoiceResultDataCorrupted" -> "DataCorrupted"
      [] res = "k_EVoiceResultRestricted" -> "Restricted"
      [] res = OtherVoiceCode -> Unreachable
      [] OTHER -> ub

\* The match of decompress_voice, with the NoData and DataCorrupted arms
\* exchanged.
DecompressVoiceMatchSwapped(res, ub) ==
    CASE res = "k_EVoiceResultNoData" -> "DataCorrupted"
      [] res = "k_EVoiceResultDataCorrupted" -> "NoData"
      [] OTHER -> GetVoiceMatch(res, ub)

\* The match of decompress_voice.
DecompressVoiceMatch(res, ub) ==
    CASE res = "k_EVoiceResultOK" -> "Ok"
      [] res = "k_EVoiceResultNotInitialized" -> "NotInitialized"
      [] res = "k_EVoiceResultNotRecording" -> "NotRecording"
      [] res = "k_EVoiceResultNoData" -> "NoData"
      [] res = "k_EVoiceResultBufferTooSmall" -> "BufferTooSmall"
      [] res = "k_EVoiceResultDataCorrupted" -> "DataCorrupted"
      [] res = "k_EVoiceResultRestricted" -> "Restricted"
      [] res = OtherVoiceCode -> Unreachable
      [] OTHER -> ub

\* From<sys::EResult> for SteamError (defined outside user.rs): the
\* Result-Code Translator of the design, one error kind per code.
SteamErrorFrom(code) ==
    CASE code = "k_EResultFail" -> "Generic"
      [] code = "k_EResultNoConnection" -> "NoConnection"
      [] code = "k_EResultTimeout" -> "Timeout"
      [] OTHER -> Unreachable

(***************************************************************************)
(* The platform's trust authority behind the call boundary.                *)
(***************************************************************************)

\* What the authority finds in the ticket bytes it is given.
TicketKinds == {"valid", "invalid", "oldversion", "othergame", "expired"}

\* GetAuthSessionTicket: the bytes the platform leaves in the 1024-byte buffer
\* when it reports a ticket of n bytes (it writes at most cbMaxTicket bytes).
PlatformTicketBuffer(n, seed, cbMaxTicket) ==
    [i \in 1..TicketBufLen |->
        IF i <= Min(n, cbMaxTicket) THEN ((i * seed) % 255) + 1 ELSE 0]

\* BeginAuthSession: a session begun for the identity and not ended is a
\* duplicate request; otherwise the ticket decides, and a valid one opens the
\* session.
SteamAPI_ISteamUser_BeginAuthSession(sess, ticket, user) ==
    IF user \in sess
    THEN [sessions |-> sess, code |-> "k_EBeginAuthSessionResultDuplicateRequest"]
    ELSE CASE ticket = "valid" ->
                [sessions |-> sess \cup {user},
                 code |-> "k_EBeginAuthSessionResultOK"]
           [] ticket = "invalid" ->
                [sessions |-> sess, code |-> "k_EBeginAuthSessionResultInvalidTicket"]
           [] ticket = "oldversion" ->
                [sessions |-> sess, code |-> "k_EBeginAuthSessionResultInvalidVersion"]
           [] ticket = "othergame" ->
                [sessions |-> sess, code |-> "k_EBeginAuthSessionResultGameMismatch"]
           [] OTHER ->
                [sessions |-> sess, code |-> "k_EBeginAuthSessionResultExpiredTicket"]

\* EndAuthSession: closes the session if there is one, and is silent otherwise.
SteamAPI_ISteamUser_EndAuthSession(sess, user) == sess \ {user}

\* CancelAuthTicket: forgets the handle if it is live, and is silent otherwise.
SteamAPI_ISteamUser_CancelAuthTicket(live, h) == live \ {h}

(***************************************************************************)
(* The binding's operations on tickets and sessions.                       *)
(***************************************************************************)

\* Vec::truncate: keeps the first len elements, no effect when len >= length.
truncate(v, len) == IF len >= Len(v) THEN v ELSE SubSeq(v, 1, len)

\* authentication_session_ticket without the truncation of the buffer.
authentication_session_ticket_untruncated(auth_ticket, ticket, ticket_len) ==
    [ticket |-> ticket, auth |-> auth_ticket]

\* authentication_session_ticket, after the platform call returned the handle
\* auth_ticket, filled the buffer `ticket` and set ticket_len.
authentication_session_ticket(auth_ticket, ticket, ticket_len) ==
    [ticket |-> truncate(ticket, ticket_len), auth |-> auth_ticket]

\* cancel_authentication_ticket: forwards the handle, returns ().
cancel_authentication_ticket(live, ticket) ==
    [live |-> SteamAPI_ISteamUser_CancelAuthTicket(live, ticket), ret |-> Unit]

\* begin_authentication_session answering a second request for an identity
\* from a local table instead of forwarding it.
begin_authentication_session_cached(sess, user, ticket, ub) ==
    IF user \in sess
    THEN [sessions |-> sess, res |-> "none", ret |-> "DuplicateRequest",
          forwarded |-> FALSE]
    ELSE LET r == SteamAPI_ISteamUser_BeginAuthSession(sess, ticket, user)
         IN  [sessions |-> r.sessions, res |-> r.code,
              ret |-> BeginAuthSessionMatch(r.code, ub), forwarded |-> TRUE]

\* begin_authentication_session: one BeginAuthSession call, result translated.
begin_authentication_session(sess, user, ticket, ub) ==
    LET r == SteamAPI_ISteamUser_BeginAuthSession(sess, ticket, user)
    IN  [sessions |-> r.sessions, res |-> r.code,
         ret |-> BeginAuthSessionMatch(r.code, ub), forwarded |-> TRUE]

\* end_authentication_session failing when no session is open for the user.
end_authentication_session_checked(sess, user) ==
    [sessions |-> SteamAPI_ISteamUser_EndAuthSession(sess, user),
     ret |-> IF user \in sess THEN Unit ELSE Unreachable]

\* end_authentication_session: forwards the identity, returns ().
end_authentication_session(sess, user) ==
    [sessions |-> SteamAPI_ISteamUser_EndAuthSession(sess, user), ret |-> Unit]

(***************************************************************************)
(* The callback decoders.                                                  *)
(***************************************************************************)

\* A decoder that did not return: it hit unreachable!() or the process was
\* killed.
Panicked == [aborted |-> TRUE]

\* AuthSessionTicketResponse::from_raw
AuthSessionTicketResponse_from_raw(val) ==
    LET result == IF val.m_eResult = "k_EResultOK"
                  THEN "Ok" ELSE SteamErrorFrom(val.m_eResult)
    IN  IF result = Unreachable THEN Panicked
        ELSE [ticket |-> val.m_hAuthTicket, aborted |-> FALSE, result |-> result]

\* ValidateAuthTicketResponse::from_raw with the owner read from m_SteamID.
ValidateAuthTicketResponse_from_raw_one_id(val, ub) ==
    LET response == AuthSessionResponseMatch(val.m_eAuthSessionResponse, ub)
    IN  IF Aborts(response) THEN Panicked
        ELSE [aborted |-> FALSE,
              response |-> response,
              steam_id |-> val.m_SteamID,
              owner_steam_id |-> val.m_SteamID]

\* ValidateAuthTicketResponse::from_raw
ValidateAuthTicketResponse_from_raw(val, ub) ==
    LET response == AuthSessionResponseMatch(val.m_eAuthSessionResponse, ub)
    IN  IF Aborts(response) THEN Panicked
        ELSE [aborted |-> FALSE,
              response |-> response,
              steam_id |-> val.m_SteamID,
              owner_steam_id |-> val.m_OwnerSteamID]

\* SteamServersConnected::from_raw: reads nothing of the payload.
SteamServersConnected_from_raw(val) == [aborted |-> FALSE]

\* SteamServersDisconnected::from_raw
SteamServersDisconnected_from_raw(val) ==
    LET reason == SteamErrorFrom(val.m_eResult)
    IN  IF reason = Unreachable THEN Panicked
        ELSE [aborted |-> FALSE, reason |-> reason]

\* SteamServerConnectFailure::from_raw reporting "still retrying" only for a
\* lost connection.
SteamServerConnectFailure_from_raw_coerced(val) ==
    LET reason == SteamErrorFrom(val.m_eResult)
    IN  IF reason = Unreachable THEN Panicked
        ELSE [aborted |-> FALSE, reason |-> reason,
              still_retrying |-> (val.m_bStillRetrying /\ reason = "NoConnection")]

\* SteamServerConnectFailure::from_raw
SteamServerConnectFailure_from_raw(val) ==
    LET reason == SteamErrorFrom(val.m_eResult)
    IN  IF reason = Unreachable THEN Panicked
        ELSE [aborted |-> FALSE, reason |-> reason,
              still_retrying |-> val.m_bStillRetrying]

\* The pump hands a payload to the decoder registered for its kind.
Decode(payload, ub) ==
    CASE payload.kind = "GetAuthSessionTicketResponse_t" ->
            AuthSessionTicketResponse_from_raw(payload)
      [] payload.kind = "ValidateAuthTicketResponse_t" ->
            ValidateAuthTicketResponse_from_raw(payload, ub)
      [] payload.kind = "SteamServersConnected_t" ->
            SteamServersConnected_from_raw(payload)
      [] payload.kind = "SteamServersDisconnected_t" ->
            SteamServersDisconnected_from_raw(payload)
      [] payload.kind = "SteamServerConnectFailure_t" ->
            SteamServerConnectFailure_from_raw(payload)

\* The choices there are for ub when payload is decoded: only a Validation
\* Outcome is matched on an enum of user.rs.
DecodeChoices(payload) ==
    IF payload.kind = "ValidateAuthTicketResponse_t"
    THEN UndefinedChoices(payload.m_eAuthSessionResponse, AuthResponseCodes,
                          AuthResponseUB)
    ELSE {Unreachable}

(***************************************************************************)
(* Specification Spec: the ticket and session protocol.  The caller issues *)
(* and cancels tickets, begins and ends sessions in any order; the         *)
(* authority reports on open sessions through the callback channel, which  *)
(* the host's pump drains in arrival order.                                *)
(***************************************************************************)

NoCall == [aborted |-> FALSE, op |-> "none"]

\* Lengths the platform reports for a written ticket.
ReportedLens == {0, 1, 240, 1023, 1024, 1025, 2147483647}

\* Responses the authority sends about a session in this specification.
SessionResponses ==
    { "k_EAuthSessionResponseOK",
      "k_EAuthSessionResponseLoggedInElseWhere",
      "k_EAuthSessionResponseAuthTicketCanceled" }

Init ==
    /\ sessions = {}
    /\ revoked = {}
    /\ liveTickets = {}
    /\ nextHandle = 0
    /\ queue = <<>>
    /\ voiceInit = TRUE
    /\ phase = "Idle"
    /\ avail = 0
    /\ grace = 0
    /\ last = NoCall
    /\ prev = NoCall

\* issue_ticket: authentication_session_ticket().  The platform hands out the
\* next handle, fills the buffer, reports n bytes and schedules the Ticket
\* Creation Outcome.
IssueTicket(n, seed, er) ==
    /\ nextHandle < MaxTickets
    /\ Len(queue) < MaxPending
    /\ LET h == nextHandle + 1
           buf == PlatformTicketBuffer(n, seed, TicketMaxLen)
           r == authentication_session_ticket(h, buf, n)
       IN  /\ nextHandle' = h
           /\ liveTickets' = liveTickets \cup {h}
           /\ queue' = Append(queue, [m_eResult |-> er, m_hAuthTicket |-> h,
                                      kind |-> "GetAuthSessionTicketResponse_t"])
           /\ last' = [ticket |-> r.ticket, auth |-> r.auth, aborted |-> FALSE,
                       op |-> "issue_ticket", buf |-> buf, reported |-> n]
    /\ UNCHANGED <<sessions, revoked, prev>>
    /\ UNCHANGED voiceVars

\* cancel_ticket(h), for any handle value.
CancelTicket(h) ==
    /\ LET r == cancel_authentication_ticket(liveTickets, h)
       IN  /\ liveTickets' = r.live
           /\ last' = [ret |-> r.ret, aborted |-> Aborts(r.ret),
                       op |-> "cancel_ticket", handle |-> h,
                       wasLive |-> (h \in liveTickets)]
    /\ UNCHANGED <<sessions, revoked, nextHandle, queue, prev>>
    /\ UNCHANGED voiceVars

\* begin_session(id, ticket).
BeginSession(id, t) ==
    /\ \E ub \in UndefinedChoices(
                   SteamAPI_ISteamUser_BeginAuthSession(sessions, t, id).code,
                   BeginAuthCodes, BeginAuthUB) :
       LET r == begin_authentication_session(sessions, id, t, ub)
       IN  /\ sessions' = r.sessions
           /\ last' = [res |-> r.res, ticket |-> t, user |-> id, ret |-> r.ret,
                       forwarded |-> r.forwarded,
                       aborted |-> Aborts(r.ret),
                       op |-> "begin_session", wasOpen |-> (id \in sessions)]
    /\ UNCHANGED <<revoked, liveTickets, nextHandle, queue, prev>>
    /\ UNCHANGED voiceVars

\* end_session(id), whether or not a session is open for id.
EndSession(id) ==
    /\ LET r == end_authentication_session(sessions, id)
       IN  /\ sessions' = r.sessions
           /\ revoked' = revoked \ {id}
           /\ last' = [user |-> id, ret |-> r.ret,
                       aborted |-> Aborts(r.ret),
                       op |-> "end_session", wasOpen |-> (id \in sessions),
                       wasRevoked |-> (id \in revoked)]
    /\ UNCHANGED <<liveTickets, nextHandle, queue, prev>>
    /\ UNCHANGED voiceVars

\* The authority reports on an open session; a failure closes it on the
\* authority's side, and the caller's end_session is still due.
AuthorityReport(id, owner, resp) ==
    /\ id \in sessions \ revoked
    /\ Len(queue) < MaxPending
    /\ queue' = Append(queue, [m_eAuthSessionResponse |-> resp,
                               m_SteamID |-> id, m_OwnerSteamID |-> owner,
                               kind |-> "ValidateAuthTicketResponse_t"])
    /\ revoked' = IF resp = "k_EAuthSessionResponseOK"
                  THEN revoked ELSE revoked \cup {id}
    /\ UNCHANGED <<sessions, liveTickets, nextHandle, last, prev>>
    /\ UNCHANGED voiceVars

\* run_callbacks: the pump delivers the oldest payload to its decoder.
RunCallbacks ==
    /\ queue # <<>>
    /\ \E ub \in DecodeChoices(Head(queue)) :
       LET d == Decode(Head(queue), ub)
       IN  last' = [aborted |-> d.aborted, op |-> "callback",
                    raw |-> Head(queue), event |-> d]
    /\ queue' = Tail(queue)
    /\ UNCHANGED <<sessions, revoked, liveTickets, nextHandle, prev>>
    /\ UNCHANGED voiceVars

Next ==
    \/ \E er \in {"k_EResultOK", "k_EResultFail"} : IssueTicket(240, 1, er)
    \/ \E h \in 1..MaxTickets : CancelTicket(h)
    \/ \E id \in Ids, t \in TicketKinds : BeginSession(id, t)
    \/ \E id \in Ids : EndSession(id)
    \/ \E id \in Ids, owner \in Ids, resp \in SessionResponses :
          AuthorityReport(id, owner, resp)
    \/ RunCallbacks

Spec == Init /\ [][Next]_vars

\* C1: in every reachable state of the protocol, a cancel_ticket or end_session
\* that was just called has completed and returned (), whatever handle or
\* identity it was given and whether or not that ticket was live or that
\* session open: neither fails locally.
C1_TeardownAlwaysCompletes ==
    last.op \in {"cancel_ticket", "end_session"} =>
        (~last.aborted /\ last.ret = Unit)

\* end_session completed for an identity with no session to end, and
\* cancel_ticket/end_session is the call that acted.
C1_Witness ==
    /\ last.op = "end_session"
    /\ ~last.wasOpen
    /\ last.ret = Unit

\* C6: every begin_session is forwarded to the platform, and one made for an
\* identity whose session was begun and not ended since returns the
\* authority's DuplicateRequest.
C6_SecondBeginIsDuplicateFromAuthority ==
    last.op = "begin_session" =>
        /\ last.forwarded
        /\ last.wasOpen =>
              /\ last.res = "k_EBeginAuthSessionResultDuplicateRequest"
              /\ last.ret = "DuplicateRequest"

\* A second begin_session for an identity with a session still open, with a
\* ticket the authority would otherwise accept, got DuplicateRequest.
C6_Witness ==
    /\ last.op = "begin_session"
    /\ last.wasOpen
    /\ last.ticket = "valid"
    /\ last.ret = "DuplicateRequest"
    /\ last.user \in sessions

(***************************************************************************)
(* Specification SpecTicket: ticket issuance over every length the         *)
(* platform may report, with cancellation and delivery of the creation     *)
(* outcomes.                                                               *)
(***************************************************************************)
TicketNext ==
    \/ \E n \in ReportedLens, seed \in {1, 7},
          er \in {"k_EResultOK", "k_EResultFail"} : IssueTicket(n, seed, er)
    \/ \E h \in 1..MaxTickets : CancelTicket(h)
    \/ RunCallbacks

SpecTicket == Init /\ [][TicketNext]_vars

\* C7: the ticket bytes issue_ticket returns are never longer than 1024 and
\* are the first min(reported length, 1024) bytes of the buffer the platform
\* filled, for every reported length.
C7_TicketIsPrefixOfBuffer ==
    last.op = "issue_ticket" =>
        /\ Len(last.ticket) <= 1024
        /\ Len(last.ticket) = Min(last.reported, 1024)
        /\ \A i \in 1..Len(last.ticket) : last.ticket[i] = last.buf[i]

\* issue_ticket returned 1024 bytes although the platform reported more.
C7_Witness ==
    /\ last.op = "issue_ticket"
    /\ last.reported > 1024
    /\ Len(last.ticket) = 1024

(***************************************************************************)
(* Specification SpecDecode: the translations and decoders applied to      *)
(* every result code and payload the platform can hand over, including     *)
(* codes the matches do not name.  A call that panics ends the process.    *)
(***************************************************************************)

\* Identities carried by payloads: two accounts and a large 64-bit-style id.
PayloadIds == Ids \cup {2147483647}

\* begin_session when BeginAuthSession returns res.
TranslateBegin(res) ==
    /\ ~last.aborted
    /\ prev' = last
    /\ \E ub \in UndefinedChoices(res, BeginAuthCodes, BeginAuthUB) :
       last' = [res |-> res,
                ret |-> BeginAuthSessionMatch(res, ub),
                aborted |-> Aborts(BeginAuthSessionMatch(res, ub)),
                op |-> "begin_session"]
    /\ UNCHANGED authVars
    /\ UNCHANGED voiceVars

\* get_available when GetAvailableVoice returns res.
TranslateGetAvailable(res) ==
    /\ ~last.aborted
    /\ prev' = last
    /\ \E ub \in UndefinedChoices(res, DeclaredVoiceCodes, VoiceUB) :
       last' = [res |-> res,
                ret |-> GetAvailableVoiceMatch(res, ub),
                aborted |-> Aborts(GetAvailableVoiceMatch(res, ub)),
                op |-> "get_available"]
    /\ UNCHANGED authVars
    /\ UNCHANGED voiceVars

\* read when GetVoice returns res.
TranslateRead(res) ==
    /\ ~last.aborted
    /\ prev' = last
    /\ \E ub \in UndefinedChoices(res, DeclaredVoiceCodes, VoiceUB) :
       last' = [res |-> res,
                ret |-> GetVoiceMatch(res, ub),
                aborted |-> Aborts(GetVoiceMatch(res, ub)),
                op |-> "read"]
    /\ UNCHANGED authVars
    /\ UNCHANGED voiceVars

\* decompress when DecompressVoice returns res.
TranslateDecompress(res) ==
    /\ ~last.aborted
    /\ prev' = last
    /\ \E ub \in UndefinedChoices(res, DeclaredVoiceCodes, VoiceUB) :
       last' = [res |-> res,
                ret |-> DecompressVoiceMatch(res, ub),
                aborted |-> Aborts(DecompressVoiceMatch(res, ub)),
                op |-> "decompress"]
    /\ UNCHANGED authVars
    /\ UNCHANGED voiceVars

\* The pump delivers one payload to its decoder.
DeliverPayload(payload) ==
    /\ ~last.aborted
    /\ prev' = last
    /\ \E ub \in DecodeChoices(payload) :
       LET d == Decode(payload, ub)
       IN  last' = [aborted |-> d.aborted, op |-> "callback",
                    raw |-> payload, event |-> d]
    /\ UNCHANGED authVars
    /\ UNCHANGED voiceVars

DecodeNext ==
    \/ \E res \in BeginAuthCodes \cup {OtherBeginAuthCode} : TranslateBegin(res)
    \/ \E res \in AllVoiceCodes : TranslateGetAvailable(res)
    \/ \E res \in AllVoiceCodes : TranslateRead(res)
    \/ \E res \in AllVoiceCodes : TranslateDecompress(res)
    \/ \E id \in Ids, owner \in PayloadIds,
          resp \in AuthResponseCodes \cup {OtherAuthResponseCode} :
          DeliverPayload([m_eAuthSessionResponse |-> resp,
                          m_SteamID |-> id, m_OwnerSteamID |-> owner,
                          kind |-> "ValidateAuthTicketResponse_t"])
    \/ \E er \in EResultCodes, retrying \in BOOLEAN :
          DeliverPayload([m_eResult |-> er, m_bStillRetrying |-> retrying,
                          kind |-> "SteamServerConnectFailure_t"])
    \/ \E h \in 1..MaxTickets, er \in EResultCodes :
          DeliverPayload([m_eResult |-> er, m_hAuthTicket |-> h,
                          kind |-> "GetAuthSessionTicketResponse_t"])
    \/ DeliverPayload([kind |-> "SteamServersConnected_t"])
    \/ \E er \in EResultCodes :
          DeliverPayload([m_eResult |-> er,
                          kind |-> "SteamServersDisconnected_t"])

SpecDecode == Init /\ [][DecodeNext]_vars

\* C2: whatever result code the platform returns, begin_session,
\* get_available, read, decompress and the Validation Outcome decoder return
\* a value and do not abort.
C2_NeverAborts ==
    (\/ last.op \in {"begin_session", "get_available", "read", "decompress"}
     \/ (last.op = "callback" /\ last.raw.kind = "ValidateAuthTicketResponse_t"))
        => ~last.aborted

\* C5: begin_session returns Ok exactly for the platform's OK, the error of
\* the same meaning for each of the five other known results, and two calls
\* with the same outcome had the same platform result.
C5_BeginMappingOneToOne ==
    /\ last.op = "begin_session" =>
          /\ last.ret = "Ok" <=> last.res = "k_EBeginAuthSessionResultOK"
          /\ last.res = "k_EBeginAuthSessionResultInvalidTicket"
                => last.ret = "InvalidTicket"
          /\ last.res = "k_EBeginAuthSessionResultDuplicateRequest"
                => last.ret = "DuplicateRequest"
          /\ last.res = "k_EBeginAuthSessionResultInvalidVersion"
                => last.ret = "InvalidVersion"
          /\ last.res = "k_EBeginAuthSessionResultGameMismatch"
                => last.ret = "GameMismatch"
          /\ last.res = "k_EBeginAuthSessionResultExpiredTicket"
                => last.ret = "ExpiredTicket"
    /\ (last.op = "begin_session" /\ prev.op = "begin_session"
        /\ last.ret = prev.ret) => last.res = prev.res

\* C8: a decoded Validation Outcome carries the payload's remote identity as
\* steam_id and the payload's owner identity as owner_steam_id, whatever the
\* response; identities that differ in the payload differ in the event.
C8_IdentitiesCopied ==
    (/\ last.op = "callback"
     /\ last.raw.kind = "ValidateAuthTicketResponse_t"
     /\ ~last.aborted) =>
        /\ last.event.steam_id = last.raw.m_SteamID
        /\ last.event.owner_steam_id = last.raw.m_OwnerSteamID
        /\ last.raw.m_SteamID # last.raw.m_OwnerSteamID
              => last.event.steam_id # last.event.owner_steam_id

\* A Validation Outcome for a borrowed licence (owner differs) with an error
\* response was decoded.
C8_Witness ==
    /\ last.op = "callback"
    /\ last.raw.kind = "ValidateAuthTicketResponse_t"
    /\ ~last.aborted
    /\ last.raw.m_SteamID = 42
    /\ last.raw.m_OwnerSteamID = 2147483647
    /\ last.event.owner_steam_id = 2147483647
    /\ last.event.response = "LoggedInElseWhere"

ConnectFailureDecoded(c) ==
    /\ c.op = "callback"
    /\ c.raw.kind = "SteamServerConnectFailure_t"
    /\ ~c.aborted

\* C9: a decoded Connect-Failure carries the payload's still_retrying flag
\* unchanged, whatever the reason code, and two payloads with the same result
\* code decode to the same reason whatever their flags.
C9_StillRetryingUnchanged ==
    /\ ConnectFailureDecoded(last) =>
          last.event.still_retrying = last.raw.m_bStillRetrying
    /\ (/\ ConnectFailureDecoded(last)
        /\ ConnectFailureDecoded(prev)
        /\ last.raw.m_eResult = prev.raw.m_eResult)
          => last.event.reason = prev.event.reason

\* A Connect-Failure with still_retrying = true and a reason other than a lost
\* connection was decoded with the flag still true.
C9_Witness ==
    /\ ConnectFailureDecoded(last)
    /\ last.raw.m_bStillRetrying
    /\ last.raw.m_eResult = "k_EResultTimeout"
    /\ last.event.still_retrying
    /\ ConnectFailureDecoded(prev)
    /\ prev.raw.m_eResult = "k_EResultTimeout"
    /\ ~prev.raw.m_bStillRetrying

ValidationDecoded(c) ==
    /\ c.op = "callback"
    /\ c.raw.kind = "ValidateAuthTicketResponse_t"
    /\ ~c.aborted

\* C11: a decoded Validation Outcome has response Ok exactly when the
\* payload's auth-session response is OK, has the error of the same meaning
\* for each of the nine other known responses, and two decoded outcomes with
\* the same response came from payloads with the same auth-session response.
C11_ValidationMappingOneToOne ==
    /\ ValidationDecoded(last) =>
          /\ last.event.response = "Ok"
                <=> last.raw.m_eAuthSessionResponse = "k_EAuthSessionResponseOK"
          /\ last.raw.m_eAuthSessionResponse
                   = "k_EAuthSessionResponseUserNotConnectedToSteam"
                => last.event.response = "UserNotConnectedToSteam"
          /\ last.raw.m_eAuthSessionResponse
                   = "k_EAuthSessionResponseNoLicenseOrExpired"
                => last.event.response = "NoLicenseOrExpired"
          /\ last.raw.m_eAuthSessionResponse = "k_EAuthSessionResponseVACBanned"
                => last.event.response = "VACBanned"
          /\ last.raw.m_eAuthSessionResponse
                   = "k_EAuthSessionResponseLoggedInElseWhere"
                => last.event.response = "LoggedInElseWhere"
          /\ last.raw.m_eAuthSessionResponse
                   = "k_EAuthSessionResponseVACCheckTimedOut"
                => last.event.response = "VACCheckTimedOut"
          /\ last.raw.m_eAuthSessionResponse
                   = "k_EAuthSessionResponseAuthTicketCanceled"
                => last.event.response = "AuthTicketCancelled"
          /\ last.raw.m_eAuthSessionResponse
                   = "k_EAuthSessionResponseAuthTicketInvalidAlreadyUsed"
                => last.event.response = "AuthTicketInvalidAlreadyUsed"
          /\ last.raw.m_eAuthSessionResponse
                   = "k_EAuthSessionResponseAuthTicketInvalid"
                => last.event.response = "AuthTicketInvalid"
          /\ last.raw.m_eAuthSessionResponse
                   = "k_EAuthSessionResponsePublisherIssuedBan"
                => last.event.response = "PublisherIssuedBan"
    /\ (/\ ValidationDecoded(last)
        /\ ValidationDecoded(prev)
        /\ last.event.response = prev.event.response)
          => last.raw.m_eAuthSessionResponse = prev.raw.m_eAuthSessionResponse

\* A voice operation returned for one of the platform results the matches name.
VoiceTranslated(c) ==
    /\ c.op \in {"get_available", "read", "decompress"}
    /\ c.res \in VoiceCodes

\* C12: get_available, read and decompress each return success for the
\* platform's OK and the VoiceError of the same name for NotInitialized,
\* NotRecording, NoData, BufferTooSmall, DataCorrupted and Restricted; and two
\* calls whose underlying platform call gave the same known result return the
\* same outcome, whichever of the three operations they are and whatever
\* was called before them.
C12_VoiceMappingShared ==
    /\ VoiceTranslated(last) =>
          /\ ~last.aborted
          /\ last.res = "k_EVoiceResultOK" => last.ret = "Ok"
          /\ last.res = "k_EVoiceResultNotInitialized"
                => last.ret = "NotInitialized"
          /\ last.res = "k_EVoiceResultNotRecording" => last.ret = "NotRecording"
          /\ last.res = "k_EVoiceResultNoData" => last.ret = "NoData"
          /\ last.res = "k_EVoiceResultBufferTooSmall"
                => last.ret = "BufferTooSmall"
          /\ last.res = "k_EVoiceResultDataCorrupted"
                => last.ret = "DataCorrupted"
          /\ last.res = "k_EVoiceResultRestricted" => last.ret = "Restricted"
    /\ (/\ VoiceTranslated(last)
        /\ VoiceTranslated(prev)
        /\ last.res = prev.res)
          => last.ret = prev.ret

\* get_available and then decompress both got Restricted from the platform
\* and both returned the Restricted error.
C12_Witness ==
    /\ prev.op = "get_available"
    /\ last.op = "decompress"
    /\ prev.res = "k_EVoiceResultRestricted"
    /\ last.res = "k_EVoiceResultRestricted"
    /\ prev.ret = "Restricted"
    /\ last.ret = "Restricted"

(***************************************************************************)
(* The platform's voice recorder behind the call boundary:                 *)
(* Idle -> Recording -> Stopping -> Idle.  A recorder is the record        *)
(* [init, phase, avail, grace].                                            *)
(***************************************************************************)

Recorder == [phase |-> phase, avail |-> avail, grace |-> grace, init |-> voiceInit]

\* A captured compressed byte, a corrupt byte, and the stale content of a
\* caller's buffer before a call.
GoodByte == "voice"
BadByte == "corrupt"
StaleByte == "stale"

\* The caller's n_bytes_written before a call.
StaleCounts == {0, 77}

Fill(len, b) == [i \in 1..len |-> b]

\* StartVoiceRecording: Idle -> Recording when the voice interface works.
SteamAPI_ISteamUser_StartVoiceRecording(rec) ==
    IF rec.init /\ rec.phase = "Idle"
    THEN [rec EXCEPT !.phase = "Recording", !.grace = 0]
    ELSE rec

\* StopVoiceRecording: Recording -> Stopping, with g ticks of trailing
\* capture to come.
SteamAPI_ISteamUser_StopVoiceRecording(rec, g) ==
    IF rec.phase = "Recording"
    THEN [rec EXCEPT !.phase = "Stopping", !.grace = g]
    ELSE rec

\* The recorder settles into Idle when a poll finds the trailing capture over.
PlatformSettled(rec) == rec.phase = "Stopping" /\ rec.grace = 0

\* GetAvailableVoice: the size of the buffered compressed data.
SteamAPI_ISteamUser_GetAvailableVoice(rec, pcb) ==
    CASE ~rec.init ->
            [code |-> "k_EVoiceResultNotInitialized", rec |-> rec, pcb |-> pcb]
      [] rec.init /\ rec.phase = "Idle" ->
            [code |-> "k_EVoiceResultNotRecording", rec |-> rec, pcb |-> pcb]
      [] rec.init /\ PlatformSettled(rec) ->
            [code |-> "k_EVoiceResultNotRecording", rec |-> [rec EXCEPT !.phase = "Idle", !.avail = 0],
             pcb |-> pcb]
      [] OTHER ->
            IF rec.avail = 0
            THEN [code |-> "k_EVoiceResultNoData", rec |-> rec, pcb |-> 0]
            ELSE [code |-> "k_EVoiceResultOK", rec |-> rec, pcb |-> rec.avail]

\* GetVoice: hands over the buffered compressed data if the destination holds
\* all of it; otherwise writes nothing and leaves the count as it was, or
\* zero (zeroes says which).
SteamAPI_ISteamUser_GetVoice(rec, dest, cbDest, n, zeroes) ==
    CASE ~rec.init ->
            [code |-> "k_EVoiceResultNotInitialized", n |-> n, rec |-> rec,
             dest |-> dest]
      [] rec.init /\ rec.phase = "Idle" ->
            [code |-> "k_EVoiceResultNotRecording", n |-> n, rec |-> rec,
             dest |-> dest]
      [] rec.init /\ PlatformSettled(rec) ->
            [code |-> "k_EVoiceResultNotRecording", n |-> n, rec |-> [rec EXCEPT !.phase = "Idle", !.avail = 0],
             dest |-> dest]
      [] OTHER ->
            IF rec.avail = 0
            THEN [code |-> "k_EVoiceResultNoData", n |-> 0, rec |-> rec,
                  dest |-> dest]
            ELSE IF rec.avail > cbDest
            THEN [code |-> "k_EVoiceResultBufferTooSmall", n |-> IF zeroes THEN 0 ELSE n,
                  rec |-> rec, dest |-> dest]
            ELSE [code |-> "k_EVoiceResultOK",
                  n |-> rec.avail,
                  rec |-> [rec EXCEPT !.avail = 0],
                  dest |-> [i \in 1..Len(dest) |->
                               IF i <= rec.avail THEN GoodByte ELSE dest[i]]]

\* DecompressVoice: independent of the recorder.  Empty input is no data (or
\* an empty success, emptyOk says which); a corrupt byte is corruption; each
\* compressed byte decodes to one 16-bit sample.
SteamAPI_ISteamUser_DecompressVoice(compressed, cbCompressed, dest, cbDest, n, rate, zeroes, emptyOk) ==
    CASE cbCompressed = 0 ->
            [code |-> IF emptyOk THEN "k_EVoiceResultOK" ELSE "k_EVoiceResultNoData",
             n |-> 0, dest |-> dest]
      [] cbCompressed > 0 /\ \E i \in 1..cbCompressed : compressed[i] = BadByte ->
            [code |-> "k_EVoiceResultDataCorrupted", n |-> n, dest |-> dest]
      [] OTHER ->
            IF 2 * cbCompressed > cbDest
            THEN [code |-> "k_EVoiceResultBufferTooSmall", n |-> IF zeroes THEN 0 ELSE n,
                  dest |-> dest]
            ELSE [code |-> "k_EVoiceResultOK",
                  n |-> 2 * cbCompressed,
                  dest |-> [i \in 1..Len(dest) |->
                               IF i <= 2 * cbCompressed THEN GoodByte ELSE dest[i]]]

(***************************************************************************)
(* The binding's voice operations.                                         *)
(***************************************************************************)

\* start_voice_recording
start_voice_recording(rec) == SteamAPI_ISteamUser_StartVoiceRecording(rec)

\* stop_voice_recording calling StartVoiceRecording.
stop_voice_recording_starts(rec, g) == SteamAPI_ISteamUser_StartVoiceRecording(rec)

\* stop_voice_recording
stop_voice_recording(rec, g) == SteamAPI_ISteamUser_StopVoiceRecording(rec, g)

\* get_available_voice(pcb_compressed)
get_available_voice(rec, pcb_compressed, ub) ==
    LET r == SteamAPI_ISteamUser_GetAvailableVoice(rec, pcb_compressed)
    IN  [res |-> r.code, ret |-> GetAvailableVoiceMatch(r.code, ub),
         rec |-> r.rec, pcb |-> r.pcb]

\* get_voice(p_dest_buffer, n_bytes_written): the buffer is handed over with
\* its own length.
get_voice(rec, p_dest_buffer, n_bytes_written, zeroes, ub) ==
    LET r == SteamAPI_ISteamUser_GetVoice(rec, p_dest_buffer, Len(p_dest_buffer),
                                          n_bytes_written, zeroes)
    IN  [res |-> r.code, n |-> r.n, ret |-> GetVoiceMatch(r.code, ub),
         rec |-> r.rec, dest |-> r.dest]

\* decompress_voice(p_compressed, p_dest_buffer, n_bytes_written,
\* n_desired_sample_rate): both buffers are handed over with their own lengths.
decompress_voice(p_compressed, p_dest_buffer, n_bytes_written, n_desired_sample_rate, zeroes, emptyOk, ub) ==
    LET r == SteamAPI_ISteamUser_DecompressVoice(
                 p_compressed, Len(p_compressed), p_dest_buffer,
                 Len(p_dest_buffer), n_bytes_written, n_desired_sample_rate,
                 zeroes, emptyOk)
    IN  [res |-> r.code, n |-> r.n, ret |-> DecompressVoiceMatch(r.code, ub),
         dest |-> r.dest]

(***************************************************************************)
(* Specification SpecVoice: the capture pipeline.  The caller starts and   *)
(* stops recording, polls, reads and decompresses in any order while the   *)
(* recorder captures.  SpecVoiceFair adds that time passes and that the    *)
(* caller keeps polling get_available.                                     *)
(***************************************************************************)

InitVoice ==
    /\ sessions = {}
    /\ revoked = {}
    /\ liveTickets = {}
    /\ nextHandle = 0
    /\ queue = <<>>
    /\ voiceInit \in BOOLEAN
    /\ phase = "Idle"
    /\ avail = 0
    /\ grace = 0
    /\ last = NoCall
    /\ prev = NoCall

SetRecorder(rec) ==
    /\ voiceInit' = rec.init
    /\ phase' = rec.phase
    /\ avail' = rec.avail
    /\ grace' = rec.grace

\* start_recording()
StartRecording ==
    /\ SetRecorder(start_voice_recording(Recorder))
    /\ last' = [aborted |-> FALSE, op |-> "start_recording", phaseBefore |-> phase]
    /\ UNCHANGED prev
    /\ UNCHANGED authVars

\* stop_recording(); the platform keeps capturing for g more ticks.
StopRecording(g) ==
    /\ SetRecorder(stop_voice_recording(Recorder, g))
    /\ last' = [aborted |-> FALSE, op |-> "stop_recording", phaseBefore |-> phase]
    /\ UNCHANGED prev
    /\ UNCHANGED authVars

\* Time passes: the recorder captures, and trailing capture runs down.
Tick(captured) ==
    /\ phase # "Idle"
    /\ phase = "Stopping" => grace > 0
    /\ phase = "Recording" => (captured > 0 /\ avail < MaxAvail)
    /\ avail' = Min(avail + captured, MaxAvail)
    /\ grace' = IF phase = "Stopping" THEN grace - 1 ELSE grace
    /\ UNCHANGED <<voiceInit, phase, last, prev>>
    /\ UNCHANGED authVars

\* get_available(out compressed_len)
GetAvailable ==
    /\ \E ub \in UndefinedChoices(
                   SteamAPI_ISteamUser_GetAvailableVoice(Recorder, 0).code,
                   DeclaredVoiceCodes, VoiceUB) :
       LET r == get_available_voice(Recorder, 0, ub)
       IN  /\ SetRecorder(r.rec)
           /\ last' = [res |-> r.res, ret |-> r.ret,
                       aborted |-> Aborts(r.ret), op |-> "get_available", pcb |-> r.pcb,
                       phaseBefore |-> phase]
    /\ UNCHANGED prev
    /\ UNCHANGED authVars

\* read(dest_buffer), with a buffer of destLen stale bytes.
Read(destLen, nBefore, zeroes) ==
    /\ \E ub \in UndefinedChoices(
                   SteamAPI_ISteamUser_GetVoice(Recorder, Fill(destLen, StaleByte),
                                                destLen, nBefore, zeroes).code,
                   DeclaredVoiceCodes, VoiceUB) :
       LET dest == Fill(destLen, StaleByte)
           r == get_voice(Recorder, dest, nBefore, zeroes, ub)
       IN  /\ SetRecorder(r.rec)
           /\ last' = [res |-> r.res, n |-> r.n,
                       ret |-> r.ret, aborted |-> Aborts(r.ret), op |-> "read",
                       dest |-> r.dest, phaseBefore |-> phase, nBefore |-> nBefore,
                       destBefore |-> dest]
    /\ UNCHANGED prev
    /\ UNCHANGED authVars

\* decompress(compressed, dest_buffer, rate); alt is the platform's choice
\* where it has one (the two choices arise for different inputs).
Decompress(compressed, destLen, nBefore, rate, alt) ==
    /\ \E ub \in UndefinedChoices(
                   SteamAPI_ISteamUser_DecompressVoice(
                       compressed, Len(compressed), Fill(destLen, StaleByte),
                       destLen, nBefore, rate, alt, alt).code,
                   DeclaredVoiceCodes, VoiceUB) :
       LET dest == Fill(destLen, StaleByte)
           r == decompress_voice(compressed, dest, nBefore, rate, alt, alt, ub)
       IN  last' = [res |-> r.res, n |-> r.n,
                    ret |-> r.ret, aborted |-> Aborts(r.ret), op |-> "decompress",
                    dest |-> r.dest, compressed |-> compressed, rate |-> rate,
                    phaseBefore |-> phase, nBefore |-> nBefore, destBefore |-> dest]
    /\ UNCHANGED prev
    /\ UNCHANGED voiceVars
    /\ UNCHANGED authVars

\* Compressed inputs: every sequence of good and corrupt bytes up to MaxComp.
CompressedInputs ==
    UNION { [1..k -> {GoodByte, BadByte}] : k \in 0..MaxComp }

VoiceNext ==
    \/ StartRecording
    \/ \E g \in 1..MaxGrace : StopRecording(g)
    \/ \E captured \in {0, 1} : Tick(captured)
    \/ GetAvailable
    \/ \E destLen \in 0..MaxDest, nBefore \in StaleCounts, zeroes \in BOOLEAN :
          Read(destLen, nBefore, zeroes)
    \/ \E compressed \in CompressedInputs, destLen \in 0..MaxDest,
          nBefore \in StaleCounts, rate \in {11025, 48000}, alt \in BOOLEAN :
          Decompress(compressed, destLen, nBefore, rate, alt)

SpecVoice == InitVoice /\ [][VoiceNext]_vars

SpecVoiceFair ==
    /\ InitVoice
    /\ [][VoiceNext]_vars
    /\ WF_vars(GetAvailable)
    /\ WF_vars(\E captured \in {0, 1} : Tick(captured))

\* get_available has just returned NotRecording.
SawNotRecording == last.op = "get_available" /\ last.ret = "NotRecording"

\* C3: a get_available made while the recorder is stopping returns success,
\* NoData or NotRecording and never NotInitialized; and after a stop_recording
\* called while recording, the caller's repeated get_available calls
\* eventually return NotRecording (unless a later start_recording has begun
\* a new recording first).
C3_StopEventuallyNotRecording ==
    /\ [](last.op = "get_available" /\ last.phaseBefore = "Stopping"
            => last.ret \in {"Ok", "NoData", "NotRecording"})
    /\ (last.op = "stop_recording" /\ last.phaseBefore = "Recording")
          ~> (SawNotRecording
              \/ (last.op = "start_recording" /\ phase = "Recording"))

\* After a stop, get_available has returned NotRecording to a caller whose
\* recorder was still stopping, and the recorder is idle.
C3_Witness ==
    /\ SawNotRecording
    /\ last.phaseBefore = "Stopping"
    /\ phase = "Idle"

\* C4: when read or decompress returns BufferTooSmall, the destination buffer
\* is as it was before the call and the bytes-written output is its value
\* from before the call or zero.
C4_BufferTooSmallWritesNothing ==
    (last.op \in {"read", "decompress"} /\ last.ret = "BufferTooSmall") =>
        /\ last.dest = last.destBefore
        /\ last.n \in {last.nBefore, 0}

\* read returned BufferTooSmall for a non-empty buffer smaller than the frame.
C4_Witness ==
    /\ last.op = "read"
    /\ last.ret = "BufferTooSmall"
    /\ Len(last.destBefore) > 0
    /\ last.nBefore = 77
    /\ last.n = 77
    /\ avail > Len(last.destBefore)

\* C10: decompress of an empty compressed input returns NoData or a success
\* with zero bytes written, in every recorder phase and for every
\* destination buffer, and never DataCorrupted.
C10_EmptyInputIsNotCorruption ==
    (last.op = "decompress" /\ last.compressed = <<>>) =>
        /\ last.ret # "DataCorrupted"
        /\ \/ last.ret = "NoData"
           \/ (last.ret = "Ok" /\ last.n = 0)

\* decompress of an empty input returned NoData while recording, with a
\* non-empty destination buffer.
C10_Witness ==
    /\ last.op = "decompress"
    /\ last.compressed = <<>>
    /\ last.ret = "NoData"
    /\ last.phaseBefore = "Recording"
    /\ Len(last.destBefore) > 0

====
